---- MODULE Spec2Model ----
(***************************************************************************)
(* Model of wdm-opt-asym.cc: the OpticalErrorModel (per-bit corruption     *)
(* loop), the two-wavelength setup in main, the UDP echo traffic driven by *)
(* the discrete-event scheduler, the flow monitor's accounting and the     *)
(* post-run reduction.                                                     *)
(*                                                                         *)
(* Four specifications share the module:                                   *)
(*   SpecEM   one OpticalErrorModel, SetBer then DoCorrupt draw by draw    *)
(*   SpecWdm  two runs of main's setup loop over the same seed and the     *)
(*            same arrivals, run 2 with wavelength 0's ber set to 1        *)
(*   SpecRed  the per-flow reduction of main's report loop over FlowStats  *)
(*   Spec     the whole simulation: scheduler, clients, links, servers,    *)
(*            flow monitor, then CheckForLostPackets and the report        *)
(***************************************************************************)
EXTENDS Integers, Sequences, FiniteSets

VARIABLES
  \* ---- SpecEM: one OpticalErrorModel instance
  emPc,        \* "setup" | "idle" | "loop" | "returned"
  emBer,       \* m_ber, in units of 1e-8
  emSize,      \* p->GetSize () of the packet being decided
  emBits,      \* local bits of DoCorrupt
  emI,         \* local i of DoCorrupt
  emDraws,     \* m_random->GetValue () calls made by the current invocation
  emLast,      \* value of the last draw of the current invocation (-1: none)
  emResult,    \* "none" | "corrupt" | "clean": what DoCorrupt returned
  emCalls,     \* invocations started so far
  \* ---- SpecWdm: two runs of the setup loop and of the receive path
  wI,          \* [run -> loop index i of main's setup loop]
  wBer,        \* [run -> [wavelength created so far -> m_ber]]
  wRandom,     \* [run -> [wavelength created so far -> object m_random points to]]
  wNextObj,    \* [run -> UniformRandomVariable objects created so far]
  wPos,        \* [run -> [rng object id -> draws taken from it]]
  wTape,       \* [rng object id -> values of its stream revealed so far]
  wArrivals,   \* packets that reached node 1, as a sequence of wavelengths
  wDone,       \* [run -> arrivals decided so far]
  wLoop,       \* [run -> the DoCorrupt invocation in progress]
  wDec,        \* [run -> [wavelength -> sequence of decisions]]
  \* ---- SpecRed: the reduction
  redStats,    \* the FlowStats being reduced
  redOut,      \* its report line (NoReport before)
  \* ---- Spec: the simulation
  pc,          \* "run" | "stopped" | "checked" | "done"
  now,         \* Simulator::Now (), in ticks
  events,      \* the scheduler's pending events
  nextUid,     \* uid of the next scheduled event (insertion order)
  sent,        \* [wavelength -> m_sent of the echo client]
  serverUp,    \* [wavelength -> the echo server has started]
  delivered,   \* [wavelength -> requests handed to the echo server]
  echoed,      \* [wavelength -> responses the echo server emitted]
  dropped,     \* [wavelength -> requests the receive error model dropped]
  stats,       \* FlowMonitor::m_flowStats: flow id -> FlowStats
  tracked,     \* FlowMonitor::m_trackedPackets
  reports      \* the report lines printed so far

emVars == <<emPc, emBer, emSize, emBits, emI, emDraws, emLast, emResult, emCalls>>
wdmVars == <<wI, wBer, wRandom, wNextObj, wPos, wTape, wArrivals, wDone, wLoop, wDec>>
redVars == <<redStats, redOut>>
simVars == <<pc, now, events, nextUid, sent, serverUp, delivered, echoed,
             dropped, stats, tracked, reports>>
vars == <<emVars, wdmVars, redVars, simVars>>

\* what an action of one specification leaves alone
EMOnly == UNCHANGED <<wdmVars, redVars, simVars>>
WdmOnly == UNCHANGED <<emVars, redVars, simVars>>
RedOnly == UNCHANGED <<emVars, wdmVars, simVars>>
SimOnly == UNCHANGED <<emVars, wdmVars, redVars>>

(***************************************************************************)
(* Numbers.  A double in [0,1] is a fixed-point integer in units of 1e-8,  *)
(* the smallest bit-error-rate the program names (the default m_ber).      *)
(***************************************************************************)
BerOne == 100000000
BerDefault == 1
BerWavelength0 == 10
BerWavelength1 == 100

\* UniformRandomVariable::GetValue () returns a value in [0,1): the values
\* explored are 0, one between the two configured rates, and the largest.
DrawValues == {0, 50, BerOne - 1}

\* Values SetBer is called with: 0, the default, the two of main, 1, and
\* two outside [0,1] (-0.5 and 2).
BerValues == {0 - (BerOne \div 2), 0, BerDefault, BerWavelength0,
              BerWavelength1, BerOne, 2 * BerOne}

\* uint32_t arithmetic: n * 8 truncated to 32 bits is (n mod 2^29) * 8.
TwoTo29 == 536870912
U32Mul8(n) == 8 * (n % TwoTo29)

\* Packet sizes in bytes handed to DoCorrupt: empty, small, and two whose
\* bit count does not fit in 32 bits.
MaxSmallSize == 2
PacketSizes == (0 .. MaxSmallSize) \cup {TwoTo29, TwoTo29 + 1}

\* Invocations of DoCorrupt explored on one instance.
MaxCalls == 2

(***************************************************************************)
(* OpticalErrorModel::DoCorrupt, its pieces.                               *)
(***************************************************************************)
\* uint32_t bits = p->GetSize () * 8;
BitsOf(size) == U32Mul8(size)

\* the loop condition i < bits
LoopContinuesAll(i, bits) == i <= bits
LoopContinues(i, bits) == i < bits

\* m_random->GetValue () < m_ber
DrawCorruptsInclusive(draw, ber) == draw <= ber
DrawCorrupts(draw, ber) == draw < ber

\* SetBer: m_ber = ber, whatever ber is
SetBerValue(ber) == ber

(***************************************************************************)
(* SpecEM                                                                  *)
(***************************************************************************)
EMIdleInit ==
  /\ emPc = "setup" /\ emBer = BerDefault /\ emSize = 0 /\ emBits = 0
  /\ emI = 0 /\ emDraws = 0 /\ emLast = -1 /\ emResult = "none" /\ emCalls = 0

\* em->SetBer (ber), before Simulator::Run
SetBer(ber) ==
  /\ EMOnly
  /\ emPc = "setup"
  /\ emBer' = SetBerValue(ber)
  /\ UNCHANGED <<emPc, emSize, emBits, emI, emDraws, emLast, emResult, emCalls>>

\* Simulator::Run: the clock starts, the model now receives packets
EMRun ==
  /\ EMOnly
  /\ emPc = "setup"
  /\ emPc' = "idle"
  /\ UNCHANGED <<emBer, emSize, emBits, emI, emDraws, emLast, emResult, emCalls>>

\* DoCorrupt (p) is entered with a packet of `size` bytes
DoCorruptEnter(size) ==
  /\ EMOnly
  /\ emPc \in {"idle", "returned"}
  /\ emCalls < MaxCalls
  /\ emPc' = "loop"
  /\ emSize' = size
  /\ emBits' = BitsOf(size)
  /\ emI' = 0
  /\ emDraws' = 0
  /\ emLast' = -1
  /\ emResult' = "none"
  /\ emCalls' = emCalls + 1
  /\ UNCHANGED emBer

\* one iteration of the loop: one draw, then return true or ++i
DoCorruptDraw(draw) ==
  /\ EMOnly
  /\ emPc = "loop"
  /\ LoopContinues(emI, emBits)
  /\ emDraws' = emDraws + 1
  /\ emLast' = draw
  /\ IF DrawCorrupts(draw, emBer)
       THEN /\ emPc' = "returned"
            /\ emResult' = "corrupt"
            /\ emI' = emI
       ELSE /\ emPc' = "loop"
            /\ emResult' = emResult
            /\ emI' = emI + 1
  /\ UNCHANGED <<emBer, emSize, emBits, emCalls>>

\* the loop ends: return false
DoCorruptExit ==
  /\ EMOnly
  /\ emPc = "loop"
  /\ ~LoopContinues(emI, emBits)
  /\ emPc' = "returned"
  /\ emResult' = "clean"
  /\ UNCHANGED <<emBer, emSize, emBits, emI, emDraws, emLast, emCalls>>

NextEM ==
  \/ \E ber \in BerValues : SetBer(ber)
  \/ EMRun
  \/ \E size \in PacketSizes : DoCorruptEnter(size)
  \/ \E draw \in DrawValues : DoCorruptDraw(draw)
  \/ DoCorruptExit

(***************************************************************************)
(* SpecWdm: main's setup loop (one OpticalErrorModel per wavelength) and   *)
(* the receive path of node 1, in two runs that share the seed (the values *)
(* of every random stream) and the arrivals, and differ in wavelength 0's  *)
(* bit-error-rate alone: run 1 as written, run 2 with SetBer (1).          *)
(***************************************************************************)
numWavelengths == 2
Wavelengths == 0 .. (numWavelengths - 1)
Runs == {1, 2}

\* Arrivals at node 1 explored, and the size in bytes of each packet.
MaxArrivals == 2
WdmPacketBytes == 1
WdmDrawValues == {0, BerOne - 1}

\* m_random (CreateObject<UniformRandomVariable> ()): every OpticalErrorModel
\* constructs an object of its own; `created` objects exist already.
SharedRngObject(created) == 0
NewRngObject(created) == created

\* em->SetBer (...) of the setup loop, for wavelength i in run u
ConfiguredBer(u, i) ==
  IF i = 0 THEN (IF u = 2 THEN BerOne ELSE BerWavelength0) ELSE BerWavelength1

Extend(f, k, v) == [x \in (DOMAIN f) \cup {k} |-> IF x = k THEN v ELSE f[x]]

IdleLoop == [active |-> FALSE, ch |-> 0, bits |-> 0, i |-> 0]

WdmIdleInit ==
  /\ wI = [u \in Runs |-> 0]
  /\ wBer = [u \in Runs |-> <<>>]
  /\ wRandom = [u \in Runs |-> <<>>]
  /\ wNextObj = [u \in Runs |-> 0]
  /\ wPos = [u \in Runs |-> <<>>]
  /\ wTape = <<>>
  /\ wArrivals = <<>>
  /\ wDone = [u \in Runs |-> 0]
  /\ wLoop = [u \in Runs |-> IdleLoop]
  /\ wDec = [u \in Runs |-> [c \in Wavelengths |-> <<>>]]

\* one pass of the setup loop: CreateObject<OpticalErrorModel>, SetBer, attach
SetupWavelength(u) ==
  /\ WdmOnly
  /\ wI[u] < numWavelengths
  /\ LET i == wI[u]
         obj == NewRngObject(wNextObj[u])
     IN /\ wRandom' = [wRandom EXCEPT ![u] = Extend(@, i, obj)]
        /\ wBer' = [wBer EXCEPT ![u] = Extend(@, i, ConfiguredBer(u, i))]
        /\ wNextObj' = [wNextObj EXCEPT ![u] = @ + 1]
        /\ wPos' = [wPos EXCEPT ![u] =
                      IF obj \in DOMAIN @ THEN @ ELSE Extend(@, obj, 0)]
        /\ wTape' = IF obj \in DOMAIN wTape THEN wTape ELSE Extend(wTape, obj, <<>>)
        /\ wI' = [wI EXCEPT ![u] = @ + 1]
  /\ UNCHANGED <<wArrivals, wDone, wLoop, wDec>>

SetupDone == \A u \in Runs : wI[u] = numWavelengths

\* a packet reaches node 1 on wavelength c: run 1 enters DoCorrupt
WdmArrive(c) ==
  /\ WdmOnly
  /\ SetupDone
  /\ ~wLoop[1].active /\ ~wLoop[2].active
  /\ wDone[1] = wDone[2]
  /\ wDone[1] < MaxArrivals
  /\ wArrivals' = Append(wArrivals, c)
  /\ wLoop' = [wLoop EXCEPT ![1] =
       [active |-> TRUE, ch |-> c, bits |-> BitsOf(WdmPacketBytes), i |-> 0]]
  /\ UNCHANGED <<wI, wBer, wRandom, wNextObj, wPos, wTape, wDone, wDec>>

\* the same packet reaches node 1 in run 2
WdmReplay ==
  /\ WdmOnly
  /\ SetupDone
  /\ ~wLoop[1].active /\ ~wLoop[2].active
  /\ wDone[2] < wDone[1]
  /\ wLoop' = [wLoop EXCEPT ![2] =
       [active |-> TRUE, ch |-> wArrivals[wDone[2] + 1],
        bits |-> BitsOf(WdmPacketBytes), i |-> 0]]
  /\ UNCHANGED <<wI, wBer, wRandom, wNextObj, wPos, wTape, wArrivals, wDone, wDec>>

\* one iteration of DoCorrupt's loop in run u: the next value of the stream
\* of m_random is the one the seed fixes (revealed once, the same in both runs)
WdmDraw(u, draw) ==
  /\ WdmOnly
  /\ wLoop[u].active
  /\ LoopContinues(wLoop[u].i, wLoop[u].bits)
  /\ LET c == wLoop[u].ch
         obj == wRandom[u][c]
         p == wPos[u][obj] + 1
     IN /\ IF p <= Len(wTape[obj])
             THEN draw = wTape[obj][p] /\ wTape' = wTape
             ELSE wTape' = [wTape EXCEPT ![obj] = Append(@, draw)]
        /\ wPos' = [wPos EXCEPT ![u][obj] = p]
        /\ IF DrawCorrupts(draw, wBer[u][c])
             THEN /\ wLoop' = [wLoop EXCEPT ![u] = IdleLoop]
                  /\ wDec' = [wDec EXCEPT ![u][c] = Append(@, TRUE)]
                  /\ wDone' = [wDone EXCEPT ![u] = @ + 1]
             ELSE /\ wLoop' = [wLoop EXCEPT ![u].i = @ + 1]
                  /\ UNCHANGED <<wDec, wDone>>
  /\ UNCHANGED <<wI, wBer, wRandom, wNextObj, wArrivals>>

\* DoCorrupt's loop ends in run u: return false
WdmExit(u) ==
  /\ WdmOnly
  /\ wLoop[u].active
  /\ ~LoopContinues(wLoop[u].i, wLoop[u].bits)
  /\ wLoop' = [wLoop EXCEPT ![u] = IdleLoop]
  /\ wDec' = [wDec EXCEPT ![u][wLoop[u].ch] = Append(@, FALSE)]
  /\ wDone' = [wDone EXCEPT ![u] = @ + 1]
  /\ UNCHANGED <<wI, wBer, wRandom, wNextObj, wPos, wTape, wArrivals>>

NextWdm ==
  \/ \E u \in Runs : SetupWavelength(u)
  \/ \E c \in Wavelengths : WdmArrive(c)
  \/ WdmReplay
  \/ \E u \in Runs, draw \in WdmDrawValues : WdmDraw(u, draw)
  \/ \E u \in Runs : WdmExit(u)

(***************************************************************************)
(* The simulation.  Time is in ticks of 100 ns.                            *)
(***************************************************************************)
TicksPerSecond == 10000000
TicksPerMillisecond == 10000
TicksPerMicrosecond == 10

\* DataRate "10Gbps" / "5Gbps", in bits per tick
DataRate(c) == IF c = 0 THEN 1000 ELSE 500
\* Delay "2ms" / "5ms"
Delay(c) == IF c = 0 THEN 2 * TicksPerMillisecond ELSE 5 * TicksPerMillisecond
\* MaxPackets, Interval, PacketSize of the two echo clients
MaxPackets(c) == IF c = 0 THEN 2000 ELSE 500
Interval(c) == IF c = 0 THEN 2 * TicksPerMillisecond ELSE 50 * TicksPerMillisecond
PacketSize(c) == IF c = 0 THEN 1024 ELSE 512
\* serverApp.Start (Seconds (1.0)), clientApp.Start (Seconds (2.0 + i))
ServerStartTime == 1 * TicksPerSecond
ClientStartTime(c) == (2 + c) * TicksPerSecond
\* Simulator::Stop (Seconds (30.0))
StopTime == 30 * TicksPerSecond

\* UDP and IPv4 headers (what the flow monitor's probe sees above the
\* payload), and the point-to-point device's PPP header (on the wire).
IpUdpHeaderBytes == 28
PppHeaderBytes == 2
\* FlowMonitor's MaxPerHopDelay (10 s) and its periodic check (every 1 s),
\* the defaults FlowMonitorHelper::InstallAll leaves in place.
MaxPerHopDelay == 10 * TicksPerSecond
PeriodicCheckInterval == 1 * TicksPerSecond

IpBytes(c) == PacketSize(c) + IpUdpHeaderBytes
WireBytes(c) == IpBytes(c) + PppHeaderBytes
\* time to put the packet on the wire, then the channel's delay
TxTime(c) == (WireBytes(c) * 8) \div DataRate(c)
OneWay(c) == TxTime(c) + Delay(c)

\* The five-tuples seen, in order of discovery: the request flow of
\* wavelength c, then its response flow.
RequestFlow(c) == 2 * c + 1
ResponseFlow(c) == 2 * c + 2

\* Requests whose corruption decision is explored both ways: the first
\* CorruptHead and the last CorruptTail requests of each client.  For every
\* other request the draws come out above the bit-error-rate.
CorruptHead == 2
CorruptTail == 2
MayCorrupt(c, seq) ==
  \/ seq < CorruptHead
  \/ seq >= MaxPackets(c) - CorruptTail

(***************************************************************************)
(* The flow monitor (FlowMonitor), as main uses it.                        *)
(***************************************************************************)
NewFlowStats ==
  [txPackets |-> 0, rxPackets |-> 0, lostPackets |-> 0, rxBytes |-> 0,
   delaySum |-> 0, timeFirstTxPacket |-> 0, timeLastRxPacket |-> 0]

StatsFor(st, flow) == IF flow \in DOMAIN st THEN st[flow] ELSE NewFlowStats

\* the probe on the sending node sees a packet leave: txPackets++
FmReportFirstTx(fm, flow, pkt, t) ==
  LET old == StatsFor(fm.stats, flow)
      new == [old EXCEPT !.txPackets = @ + 1,
                         !.timeFirstTxPacket = IF old.txPackets = 0 THEN t ELSE @]
  IN [stats |-> Extend(fm.stats, flow, new),
      tracked |-> fm.tracked \cup
                    {[flow |-> flow, pkt |-> pkt, firstSeenTime |-> t,
                      lastSeenTime |-> t]}]

\* the probe on the receiving node sees a packet delivered: rxPackets++,
\* and the packet is tracked no more (an untracked packet is ignored)
FmReportLastRx(fm, flow, pkt, bytes, t) ==
  LET hit == {p \in fm.tracked : p.flow = flow /\ p.pkt = pkt}
  IN IF hit = {} THEN fm
     ELSE LET p == CHOOSE q \in hit : TRUE
              old == StatsFor(fm.stats, flow)
              new == [old EXCEPT !.rxPackets = @ + 1,
                                 !.rxBytes = @ + bytes,
                                 !.delaySum = @ + (t - p.firstSeenTime),
                                 !.timeLastRxPacket = t]
          IN [stats |-> Extend(fm.stats, flow, new),
              tracked |-> fm.tracked \ hit]

\* CheckForLostPackets (maxDelay): every tracked packet last seen maxDelay
\* ago or earlier is counted lost and tracked no more
FmCheckAllTracked(fm, t, maxDelay) ==
  [stats |-> [f \in DOMAIN fm.stats |->
                [fm.stats[f] EXCEPT !.lostPackets =
                   @ + Cardinality({p \in fm.tracked : p.flow = f})]],
   tracked |-> {}]

FmCheckForLostPackets(fm, t, maxDelay) ==
  LET late == {p \in fm.tracked : t - p.lastSeenTime >= maxDelay}
  IN [stats |-> [f \in DOMAIN fm.stats |->
                   [fm.stats[f] EXCEPT !.lostPackets =
                      @ + Cardinality({p \in late : p.flow = f})]],
      tracked |-> fm.tracked \ late]

(***************************************************************************)
(* The reduction of main's report loop.                                    *)
(***************************************************************************)
\* a double: a quotient, or what a division by zero leaves
Quot(a, b) ==
  IF b = 0 THEN [kind |-> IF a = 0 THEN "nan" ELSE "inf", num |-> a, den |-> 0]
  ELSE [kind |-> "num", num |-> a, den |-> b]
Zero == [kind |-> "num", num |-> 0, den |-> 1]
IsZero(q) == q.kind = "num" /\ q.num = 0

\* throughput in Mbps: (rxBytes * 8.0 / duration) / 1e6, if duration > 0
Throughput(fs) ==
  LET duration == fs.timeLastRxPacket - fs.timeFirstTxPacket
  IN IF duration > 0
       THEN Quot(fs.rxBytes * 8 * TicksPerMicrosecond, duration)
       ELSE Zero

\* average delay in ticks: delaySum / rxPackets, if rxPackets > 0
AvgDelayUnguarded(fs) == Quot(fs.delaySum, fs.rxPackets)
AvgDelay(fs) ==
  IF fs.rxPackets > 0 THEN Quot(fs.delaySum, fs.rxPackets) ELSE Zero

ReportLine(flow, fs) ==
  [flow |-> flow, txPackets |-> fs.txPackets, rxPackets |-> fs.rxPackets,
   lostPackets |-> fs.lostPackets, throughput |-> Throughput(fs),
   avgDelay |-> AvgDelay(fs)]

(***************************************************************************)
(* SpecRed: the reduction applied to the FlowStats a request flow can end  *)
(* with: tx packets sent one Interval apart, rx of them delivered (the     *)
(* last delivered one being the k-th sent), lost of them counted lost.     *)
(***************************************************************************)
RedMaxPackets == 4

NoStats == [NewFlowStats EXCEPT !.txPackets = 0 - 1]
NoReport == ReportLine(0, NewFlowStats)

RequestFlowStats(c, tx, rx, lost, k) ==
  [txPackets |-> tx, rxPackets |-> rx, lostPackets |-> lost,
   rxBytes |-> rx * IpBytes(c), delaySum |-> rx * OneWay(c),
   timeFirstTxPacket |-> ClientStartTime(c),
   timeLastRxPacket |->
     IF rx = 0 THEN 0 ELSE ClientStartTime(c) + (k - 1) * Interval(c) + OneWay(c)]

RedInputs ==
  {RequestFlowStats(q[1], q[2], q[3], q[4], q[5]) :
     q \in {r \in Wavelengths \X (1 .. RedMaxPackets) \X (0 .. RedMaxPackets)
                   \X (0 .. RedMaxPackets) \X (1 .. RedMaxPackets) :
              /\ r[3] <= r[2]
              /\ r[4] <= r[2] - r[3]
              /\ IF r[3] = 0 THEN r[5] = 1 ELSE r[3] <= r[5] /\ r[5] <= r[2]}}

RedIdleInit == redStats = NoStats /\ redOut = NoReport

RedInit ==
  /\ redStats \in RedInputs
  /\ redOut = NoReport

\* one pass of the report loop
ReduceFlow ==
  /\ RedOnly
  /\ redOut = NoReport
  /\ redStats # NoStats
  /\ redOut' = ReportLine(1, redStats)
  /\ UNCHANGED redStats

NextRed == ReduceFlow

(***************************************************************************)
(* Spec: the simulation.  Every action but the three post-run ones runs    *)
(* the scheduler's earliest event (ties: insertion order).                 *)
(***************************************************************************)
Event(t, uid, kind, c, seq) ==
  [time |-> t, uid |-> uid, kind |-> kind, ch |-> c, seq |-> seq]

Earlier(a, b) == a.time < b.time \/ (a.time = b.time /\ a.uid <= b.uid)
NextEvent == CHOOSE e \in events : \A o \in events : Earlier(e, o)
Running(kind) == pc = "run" /\ events # {} /\ NextEvent.kind = kind

Fm == [stats |-> stats, tracked |-> tracked]

SimIdleInit ==
  /\ pc = "off" /\ now = 0 /\ events = {} /\ nextUid = 0
  /\ sent = [c \in Wavelengths |-> 0]
  /\ serverUp = [c \in Wavelengths |-> FALSE]
  /\ delivered = [c \in Wavelengths |-> 0]
  /\ echoed = [c \in Wavelengths |-> 0]
  /\ dropped = [c \in Wavelengths |-> 0]
  /\ stats = <<>> /\ tracked = {} /\ reports = <<>>

\* the state Simulator::Run starts from: the flow monitor's first periodic
\* check, the stop event, and the start of every application are scheduled
SimInit ==
  /\ pc = "run" /\ now = 0
  /\ events = {Event(PeriodicCheckInterval, 0, "PeriodicCheck", 0, 0),
               Event(StopTime, 1, "Stop", 0, 0),
               Event(ClientStartTime(0), 2, "ClientSend", 0, 0),
               Event(ClientStartTime(1), 3, "ClientSend", 1, 0),
               Event(ServerStartTime, 4, "ServerStart", 0, 0),
               Event(ServerStartTime, 5, "ServerStart", 1, 0)}
  /\ nextUid = 6
  /\ sent = [c \in Wavelengths |-> 0]
  /\ serverUp = [c \in Wavelengths |-> FALSE]
  /\ delivered = [c \in Wavelengths |-> 0]
  /\ echoed = [c \in Wavelengths |-> 0]
  /\ dropped = [c \in Wavelengths |-> 0]
  /\ stats = <<>> /\ tracked = {} /\ reports = <<>>

\* UdpEchoServer::StartApplication
ServerStart ==
  /\ SimOnly
  /\ Running("ServerStart")
  /\ LET e == NextEvent
     IN /\ now' = e.time
        /\ events' = events \ {e}
        /\ serverUp' = [serverUp EXCEPT ![e.ch] = TRUE]
  /\ UNCHANGED <<pc, nextUid, sent, delivered, echoed, dropped, stats, tracked,
                 reports>>

\* whether the client schedules another transmission after this one
SchedulesNext(c, nsent) == nsent < MaxPackets(c)

\* UdpEchoClient::Send: the request leaves node 0 (the probe reports it), the
\* link schedules its arrival at node 1, and the next Send is scheduled
\* while fewer than MaxPackets were sent
ClientSend ==
  /\ SimOnly
  /\ Running("ClientSend")
  /\ LET e == NextEvent
         c == e.ch
         fm == FmReportFirstTx(Fm, RequestFlow(c), sent[c], e.time)
         arrival == Event(e.time + OneWay(c), nextUid, "RxRequest", c, sent[c])
         again == Event(e.time + Interval(c), nextUid + 1, "ClientSend", c, 0)
     IN /\ now' = e.time
        /\ stats' = fm.stats
        /\ tracked' = fm.tracked
        /\ sent' = [sent EXCEPT ![c] = @ + 1]
        /\ events' = ((events \ {e}) \cup {arrival}) \cup
                       (IF SchedulesNext(c, sent[c] + 1) THEN {again} ELSE {})
        /\ nextUid' = nextUid + 2
  /\ UNCHANGED <<pc, serverUp, delivered, echoed, dropped, reports>>

\* devices.Get (1)->SetAttribute ("ReceiveErrorModel", ...): the device of
\* node 1 drops what its error model marks corrupted
ErrorModelIgnored(corrupt) == FALSE
ErrorModelDrops(corrupt) == corrupt

\* node 1's device receives a request and its error model's IsCorrupt (p)
\* says `corrupt`.  Corrupted: the packet is dropped at the device and that
\* is all.  Else it goes up the stack: the probe reports the delivery, the
\* echo server gets it and sends it back at once (the probe reports that
\* transmission), and the link schedules its arrival at node 0.
RxRequest(corrupt) ==
  /\ SimOnly
  /\ Running("RxRequest")
  /\ LET e == NextEvent
         c == e.ch
         up == FmReportLastRx(Fm, RequestFlow(c), e.seq, IpBytes(c), e.time)
         back == FmReportFirstTx(up, ResponseFlow(c), e.seq, e.time)
         arrival == Event(e.time + OneWay(c), nextUid, "RxResponse", c, e.seq)
     IN /\ corrupt => MayCorrupt(c, e.seq)
        /\ now' = e.time
        /\ dropped' = [dropped EXCEPT ![c] = IF corrupt THEN @ + 1 ELSE @]
        /\ IF ErrorModelDrops(corrupt)
             THEN /\ events' = events \ {e}
                  /\ UNCHANGED <<stats, tracked, delivered, echoed, nextUid>>
             ELSE IF serverUp[c]
               THEN /\ stats' = back.stats
                    /\ tracked' = back.tracked
                    /\ delivered' = [delivered EXCEPT ![c] = @ + 1]
                    /\ echoed' = [echoed EXCEPT ![c] = @ + 1]
                    /\ events' = (events \ {e}) \cup {arrival}
                    /\ nextUid' = nextUid + 1
               ELSE /\ stats' = up.stats
                    /\ tracked' = up.tracked
                    /\ events' = events \ {e}
                    /\ UNCHANGED <<delivered, echoed, nextUid>>
  /\ UNCHANGED <<pc, sent, serverUp, reports>>

\* node 0's device (no error model) receives a response: it goes up the
\* stack, the probe reports the delivery, the client reads it
RxResponse ==
  /\ SimOnly
  /\ Running("RxResponse")
  /\ LET e == NextEvent
         c == e.ch
         up == FmReportLastRx(Fm, ResponseFlow(c), e.seq, IpBytes(c), e.time)
     IN /\ now' = e.time
        /\ events' = events \ {e}
        /\ stats' = up.stats
        /\ tracked' = up.tracked
  /\ UNCHANGED <<pc, nextUid, sent, serverUp, delivered, echoed, dropped, reports>>

\* FlowMonitor::PeriodicCheckForLostPackets
PeriodicCheck ==
  /\ SimOnly
  /\ Running("PeriodicCheck")
  /\ LET e == NextEvent
         fm == FmCheckForLostPackets(Fm, e.time, MaxPerHopDelay)
     IN /\ now' = e.time
        /\ stats' = fm.stats
        /\ tracked' = fm.tracked
        /\ events' = (events \ {e}) \cup
             {Event(e.time + PeriodicCheckInterval, nextUid, "PeriodicCheck", 0, 0)}
        /\ nextUid' = nextUid + 1
  /\ UNCHANGED <<pc, sent, serverUp, delivered, echoed, dropped, reports>>

\* the stop event: Simulator::Run returns, the later events never run
Stop ==
  /\ SimOnly
  /\ Running("Stop")
  /\ now' = NextEvent.time
  /\ events' = events \ {NextEvent}
  /\ pc' = "stopped"
  /\ UNCHANGED <<nextUid, sent, serverUp, delivered, echoed, dropped, stats,
                 tracked, reports>>

\* flowmon->CheckForLostPackets () after Simulator::Run
FinalCheck ==
  /\ SimOnly
  /\ pc = "stopped"
  /\ LET fm == FmCheckForLostPackets(Fm, now, MaxPerHopDelay)
     IN stats' = fm.stats /\ tracked' = fm.tracked
  /\ pc' = "checked"
  /\ UNCHANGED <<now, events, nextUid, sent, serverUp, delivered, echoed,
                 dropped, reports>>

\* the flows the report loop has not reached yet
Unreported == (DOMAIN stats) \ {reports[k].flow : k \in DOMAIN reports}

\* one pass of the report loop, over the flows in the map's order
ReportFlow ==
  /\ SimOnly
  /\ pc = "checked"
  /\ Unreported # {}
  /\ LET flow == CHOOSE f \in Unreported : \A g \in Unreported : f <= g
     IN reports' = Append(reports, ReportLine(flow, stats[flow]))
  /\ UNCHANGED <<pc, now, events, nextUid, sent, serverUp, delivered, echoed,
                 dropped, stats, tracked>>

\* "Done.", Simulator::Destroy, return 0
Finish ==
  /\ SimOnly
  /\ pc = "checked"
  /\ Unreported = {}
  /\ pc' = "done"
  /\ UNCHANGED <<now, events, nextUid, sent, serverUp, delivered, echoed,
                 dropped, stats, tracked, reports>>

Next ==
  \/ ServerStart
  \/ ClientSend
  \/ \E corrupt \in BOOLEAN : RxRequest(corrupt)
  \/ RxResponse
  \/ PeriodicCheck
  \/ Stop
  \/ FinalCheck
  \/ ReportFlow
  \/ Finish

(***************************************************************************)
(* The specifications.                                                     *)
(***************************************************************************)
InitEM == EMIdleInit /\ WdmIdleInit /\ RedIdleInit /\ SimIdleInit
SpecEM == InitEM /\ [][NextEM]_vars

InitWdm == EMIdleInit /\ WdmIdleInit /\ RedIdleInit /\ SimIdleInit
SpecWdm == InitWdm /\ [][NextWdm]_vars

InitRed == EMIdleInit /\ WdmIdleInit /\ RedInit /\ SimIdleInit
SpecRed == InitRed /\ [][NextRed]_vars

Init == EMIdleInit /\ WdmIdleInit /\ RedIdleInit /\ SimInit
Spec == Init /\ [][Next]_vars

(***************************************************************************)
(* Properties.                                                             *)
(***************************************************************************)
Finished == pc \in {"checked", "done"}

\* packets of flow f on the wire: sent, and neither dropped nor delivered yet
InFlight(f) ==
  Cardinality({e \in events :
     \/ e.kind = "RxRequest" /\ f = RequestFlow(e.ch)
     \/ e.kind = "RxResponse" /\ f = ResponseFlow(e.ch)})
InFlightRequests(c) ==
  Cardinality({e \in events : e.kind = "RxRequest" /\ e.ch = c})

\* C1: after Simulator::Run has returned and CheckForLostPackets was called,
\* every flow has rxPackets + lostPackets = txPackets.
C1_FlowAccountingAtEnd ==
  Finished =>
    \A f \in DOMAIN stats :
      stats[f].rxPackets + stats[f].lostPackets = stats[f].txPackets

\* C2: in every state, for every flow, the packets received, the packets
\* counted lost and the packets still in flight together never exceed the
\* packets transmitted: a packet in flight is neither received nor lost.
C2_NoOvercount ==
  \A f \in DOMAIN stats :
    stats[f].rxPackets + stats[f].lostPackets + InFlight(f) <= stats[f].txPackets

\* a flow with packets received, a packet counted lost and a packet in flight
C2_Witness ==
  \E f \in DOMAIN stats :
    /\ InFlight(f) > 0
    /\ stats[f].lostPackets > 0
    /\ stats[f].rxPackets > 0

\* C3: with a bit-error-rate of 1, DoCorrupt returns true for every packet
\* of more than 0 bytes.
C3_BerOneAlwaysCorrupts ==
  (emPc = "returned" /\ emBer = BerOne /\ emSize > 0) => emResult = "corrupt"

\* C4 as claimed (stated for the sizes whose bit count fits in 32 bits):
\* every invocation consumes exactly packetSizeBytes * 8 draws.
C4_DrawsEqualBits ==
  (emPc = "returned" /\ emSize < TwoTo29) => emDraws = emSize * 8

\* C4 as amended: an invocation stops at the first draw below the
\* bit-error-rate.  It consumes at most packetSizeBytes * 8 draws; a packet
\* found clean has consumed as many draws as the 32-bit bit count, a packet
\* found corrupted at least one, the last of them below the bit-error-rate.
C4_DrawsUpToFirstCorrupt ==
  emPc = "returned" =>
    /\ (emDraws + 7) \div 8 <= emSize
    /\ emResult = "clean" => emDraws = 8 * (emSize % TwoTo29)
    /\ emResult = "corrupt" =>
         /\ 1 <= emDraws
         /\ emDraws <= 8 * (emSize % TwoTo29)
         /\ emLast < emBer

\* a packet found corrupted before its last bit, on the second draw or later
C4_Witness ==
  /\ emPc = "returned"
  /\ emResult = "corrupt"
  /\ 1 < emDraws
  /\ emDraws < emSize * 8

\* C5: the two runs differ in wavelength 0's bit-error-rate alone; the
\* decisions taken on wavelength 1 are the same in both, and so are its
\* count of dropped packets and the position of its random stream once both
\* runs have decided the same arrivals.
LostOn(u, c) == Cardinality({k \in DOMAIN wDec[u][c] : wDec[u][c][k]})
C5_ChannelIndependence ==
  /\ \A k \in (DOMAIN wDec[1][1]) \cap (DOMAIN wDec[2][1]) :
       wDec[1][1][k] = wDec[2][1][k]
  /\ (SetupDone /\ wDone[1] = wDone[2] /\ ~wLoop[1].active /\ ~wLoop[2].active) =>
       /\ LostOn(1, 1) = LostOn(2, 1)
       /\ wPos[1][wRandom[1][1]] = wPos[2][wRandom[2][1]]

\* both runs decided a packet on each wavelength: wavelength 0's was clean
\* in run 1 and corrupted in run 2, wavelength 1's was corrupted
C5_Witness ==
  /\ wDone[1] = 2 /\ wDone[2] = 2
  /\ wDec[1][0] = <<FALSE>> /\ wDec[2][0] = <<TRUE>>
  /\ wDec[1][1] = <<TRUE>> /\ wDec[2][1] = <<TRUE>>

\* a draw of DoCorrupt in run u on wavelength c
DrewOn(u, c) == wLoop[u].active /\ wLoop[u].ch = c /\ wPos'[u] # wPos[u]

\* C6 as claimed: the two error models draw from one stream, so a draw on
\* one wavelength advances the stream the other wavelength draws from.
C6_OneSharedStream ==
  [][\A u \in Runs, c \in Wavelengths :
       DrewOn(u, c) =>
         wPos'[u][wRandom[u][1 - c]] = wPos[u][wRandom[u][1 - c]] + 1]_vars

\* C6 as amended: every error model draws from a stream of its own (its
\* m_random is an object no other instance points to), so a draw on one
\* wavelength leaves the position of the other wavelength's stream as it was.
C6_OwnStreamPerInstance ==
  [][/\ \A u \in Runs :
          wI[u] = numWavelengths => wRandom[u][0] # wRandom[u][1]
     /\ \A u \in Runs, c \in Wavelengths :
          DrewOn(u, c) =>
            wPos'[u][wRandom[u][1 - c]] = wPos[u][wRandom[u][1 - c]]]_vars

\* in run 1 both streams were drawn from, one further than the other
C6_Witness ==
  /\ SetupDone
  /\ wPos[1][wRandom[1][0]] > 0
  /\ wPos[1][wRandom[1][1]] > wPos[1][wRandom[1][0]]

\* C7: once the clock has started, every error model's bit-error-rate is
\* within [0,1] (a rate outside it was rejected at setup).
C7_BerValidatedAtSetup ==
  emPc # "setup" => (0 <= emBer /\ emBer <= BerOne)

\* C8: the report of a flow is a number in each field; the throughput is 0
\* when timeLastRx - timeFirstTx <= 0, the average delay is 0 when
\* rxPackets = 0, and both are 0 for a flow with rxPackets = 0.
C8_GuardedReduction ==
  redOut # NoReport =>
    /\ redOut.throughput.kind = "num" /\ redOut.avgDelay.kind = "num"
    /\ redStats.timeLastRxPacket - redStats.timeFirstTxPacket <= 0
         => IsZero(redOut.throughput)
    /\ redStats.rxPackets = 0
         => IsZero(redOut.avgDelay) /\ IsZero(redOut.throughput)
    /\ redOut.txPackets = redStats.txPackets
    /\ redOut.lostPackets = redStats.lostPackets

\* the report of a flow that sent packets and received none
C8_Witness ==
  /\ redOut # NoReport
  /\ redStats.rxPackets = 0
  /\ redStats.txPackets > 0

\* C9: with a bit-error-rate of 0, DoCorrupt never returns true, whatever
\* the packet size and the draws, on every invocation.
C9_BerZeroNeverCorrupts ==
  emBer = 0 => emResult # "corrupt"

\* the second invocation at rate 0 returned false on a packet whose last
\* draw was 0
C9_Witness ==
  /\ emBer = 0 /\ emPc = "returned" /\ emResult = "clean"
  /\ emCalls >= 2 /\ emSize > 0 /\ emLast = 0

\* a step in which node 1's error model marks a request corrupted
DropStep == \E c \in Wavelengths : dropped'[c] # dropped[c]

\* C10: a request marked corrupted is dropped and nothing else happens: it
\* is not delivered to the server, nothing is sent or scheduled for it and
\* the flow monitor is not told.  On each wavelength the server has echoed
\* exactly the requests delivered to it, every request sent is in flight,
\* dropped or delivered, and the client sent at most MaxPackets requests,
\* each once.
C10_Counts ==
  \A c \in Wavelengths :
    /\ echoed[c] <= delivered[c]
    /\ delivered[c] + dropped[c] + InFlightRequests(c) = sent[c]
    /\ sent[c] <= MaxPackets(c)
    /\ StatsFor(stats, RequestFlow(c)).txPackets = sent[c]
    /\ StatsFor(stats, ResponseFlow(c)).txPackets = echoed[c]
C10_SilentDrop ==
  /\ []C10_Counts
  /\ [][DropStep =>
          /\ UNCHANGED <<stats, tracked, delivered, echoed, sent, nextUid>>
          /\ events' \subseteq events]_vars

\* a client that sent all its requests, some dropped, the others echoed
C10_Witness ==
  \E c \in Wavelengths :
    /\ sent[c] = MaxPackets(c)
    /\ dropped[c] > 0
    /\ echoed[c] = MaxPackets(c) - dropped[c]

====
